---- MODULE Spec2Model ----
(***************************************************************************)
(* Model of the Redis caching layer of alx-backend-storage:                *)
(*   0x02-redis_basic/exercise.py  count_calls, call_history, replay and   *)
(*                                 the Cache class                         *)
(*   0x02-redis_basic/web.py       count_requests and get_page             *)
(*                                                                         *)
(* Text is a sequence of Unicode code points, bytes a sequence of values   *)
(* in 0..255.  A Python value is a record [type, num, text]: num carries   *)
(* an int (or a float, in tenths), text carries a str or bytes payload.    *)
(***************************************************************************)
EXTENDS Integers, Sequences, FiniteSets, TLC

\* ------------------------------------------------------------- bounds
\* Store invocations made over a whole run (also the number of UUIDs).
MaxCalls == 2
\* Redis commands that fail with a ConnectionError over a whole run.
MaxFailures == 1
\* Concurrent callers of the Cache methods.
NumCallers == 2
\* Cache objects that may be constructed against the one Redis database.
NumInstances == 2

Callers == 1..NumCallers
Instances == 1..NumInstances

\* ------------------------------------------------------- Python values
PyInt(n) == [type |-> "int", num |-> n, text |-> <<>>]
PyFloat(tenths) == [type |-> "float", num |-> tenths, text |-> <<>>]
PyStr(s) == [type |-> "str", num |-> 0, text |-> s]
PyBytes(b) == [type |-> "bytes", num |-> 0, text |-> b]
None == [type |-> "NoneType", num |-> 0, text |-> <<>>]

\* The scalars handed to Cache.store: 42, 'hé' and b'\xff'.
Values == { PyInt(42), PyStr(<<104, 233>>), PyBytes(<<255>>) }

RECURSIVE Concat(_)
Concat(ss) == IF ss = <<>> THEN <<>> ELSE Head(ss) \o Concat(Tail(ss))

\* str(n) for a natural number n.
RECURSIVE Digits(_)
Digits(n) == IF n < 10 THEN <<48 + n>> ELSE Digits(n \div 10) \o <<48 + (n % 10)>>

\* repr of an int.
repr_int(n) == IF n < 0 THEN <<45>> \o Digits(0 - n) ELSE Digits(n)

\* repr of a float with one decimal place, given in tenths (15 is 1.5).
repr_float(t) ==
    LET a == IF t < 0 THEN 0 - t ELSE t
    IN  (IF t < 0 THEN <<45>> ELSE <<>>) \o Digits(a \div 10) \o <<46>> \o Digits(a % 10)

HexDigits == <<48, 49, 50, 51, 52, 53, 54, 55, 56, 57, 97, 98, 99, 100, 101, 102>>

\* repr of a str of printable characters: quoted with ', or with " when the
\* text holds a ' and no "; backslash and the quote in use are escaped.
repr_str(s) ==
    LET has(ch) == \E i \in 1..Len(s) : s[i] = ch
        q == IF has(39) /\ ~has(34) THEN 34 ELSE 39
        esc(ch) == IF ch = 92 \/ ch = q THEN <<92, ch>> ELSE <<ch>>
    IN  <<q>> \o Concat([i \in 1..Len(s) |-> esc(s[i])]) \o <<q>>

\* repr of bytes: b'...' with \t, \n, \r, \\ and \xhh escapes.
repr_bytes(b) ==
    LET has(ch) == \E i \in 1..Len(b) : b[i] = ch
        q == IF has(39) /\ ~has(34) THEN 34 ELSE 39
        esc(ch) ==
            IF ch = 92 \/ ch = q THEN <<92, ch>>
            ELSE IF ch = 9 THEN <<92, 116>>
            ELSE IF ch = 10 THEN <<92, 110>>
            ELSE IF ch = 13 THEN <<92, 114>>
            ELSE IF ch < 32 \/ ch > 126
                 THEN <<92, 120, HexDigits[(ch \div 16) + 1], HexDigits[(ch % 16) + 1]>>
            ELSE <<ch>>
    IN  <<98, q>> \o Concat([i \in 1..Len(b) |-> esc(b[i])]) \o <<q>>

\* repr and str of a Python value (str of bytes and of None are their repr).
repr(v) ==
    CASE v.type = "int" -> repr_int(v.num)
      [] v.type = "float" -> repr_float(v.num)
      [] v.type = "str" -> repr_str(v.text)
      [] v.type = "bytes" -> repr_bytes(v.text)
      [] OTHER -> <<78, 111, 110, 101>>

\* str(args) for the one-element tuple args = (v,).
str_args(v) == <<40>> \o repr(v) \o <<44, 41>>

\* str.encode('utf-8') for code points below 65536.
utf8_encode(s) ==
    LET enc(cp) ==
            IF cp < 128 THEN <<cp>>
            ELSE IF cp < 2048 THEN <<192 + (cp \div 64), 128 + (cp % 64)>>
            ELSE <<224 + (cp \div 4096), 128 + ((cp \div 64) % 64), 128 + (cp % 64)>>
    IN  Concat([i \in 1..Len(s) |-> enc(s[i])])

\* bytes.decode('utf-8'): [ok, text]; ok is FALSE for a UnicodeDecodeError.
\* utf8_scan decodes b from position i on, with the text decoded so far.
RECURSIVE utf8_scan(_, _, _)
utf8_scan(b, i, text) ==
    LET cont(j) == Len(b) >= j /\ b[j] >= 128 /\ b[j] <= 191
    IN  IF i > Len(b) THEN [ok |-> TRUE, text |-> text]
        ELSE IF b[i] < 128 THEN utf8_scan(b, i + 1, Append(text, b[i]))
        ELSE IF b[i] >= 194 /\ b[i] <= 223 /\ cont(i + 1)
             THEN utf8_scan(b, i + 2, Append(text, (b[i] - 192) * 64 + (b[i + 1] - 128)))
        ELSE IF b[i] >= 224 /\ b[i] <= 239 /\ cont(i + 1) /\ cont(i + 2)
                /\ (b[i] = 224 => b[i + 1] >= 160) /\ (b[i] = 237 => b[i + 1] <= 159)
             THEN utf8_scan(b, i + 3, Append(text, (b[i] - 224) * 4096
                                                   + (b[i + 1] - 128) * 64 + (b[i + 2] - 128)))
        ELSE [ok |-> FALSE, text |-> <<>>]
utf8_decode(b) == utf8_scan(b, 1, <<>>)

\* int(x) for bytes x: [ok, num]; ok is FALSE for a ValueError.  Surrounding
\* whitespace is stripped, one sign is allowed, single underscores may
\* separate digits.
RECURSIVE StripLeft(_), StripRight(_), DigitsValue(_, _)
IsSpace(ch) == ch = 32 \/ (ch >= 9 /\ ch <= 13)
StripLeft(b) == IF b # <<>> /\ IsSpace(b[1]) THEN StripLeft(Tail(b)) ELSE b
StripRight(b) ==
    IF b # <<>> /\ IsSpace(b[Len(b)]) THEN StripRight(SubSeq(b, 1, Len(b) - 1)) ELSE b
DigitsValue(b, acc) ==
    IF b = <<>> THEN acc
    ELSE IF b[1] = 95 THEN DigitsValue(Tail(b), acc)
    ELSE DigitsValue(Tail(b), acc * 10 + (b[1] - 48))
int_parse(b) ==
    LET s == StripRight(StripLeft(b))
        signed == s # <<>> /\ (s[1] = 45 \/ s[1] = 43)
        d == IF signed THEN Tail(s) ELSE s
        isDigit(ch) == ch >= 48 /\ ch <= 57
        wellFormed ==
            /\ d # <<>>
            /\ isDigit(d[1]) /\ isDigit(d[Len(d)])
            /\ \A i \in 1..Len(d) : isDigit(d[i]) \/ (d[i] = 95 /\ d[i - 1] # 95)
    IN  IF wellFormed
        THEN [ok |-> TRUE, num |-> IF signed /\ s[1] = 45 THEN 0 - DigitsValue(d, 0)
                                                        ELSE DigitsValue(d, 0)]
        ELSE [ok |-> FALSE, num |-> 0]

\* ------------------------------------------------------ Redis database
\* A database maps each present key to [kind, bytes, items]: a string value
\* (bytes) or a list (items).  Absent keys are outside its domain.
EmptyDb == [k \in {} |-> [kind |-> "string", bytes |-> <<>>, items |-> <<>>]]
StringEntry(b) == [kind |-> "string", bytes |-> b, items |-> <<>>]
ListEntry(l) == [kind |-> "list", bytes |-> <<>>, items |-> l]
Put(d, key, entry) == [k \in DOMAIN d \cup {key} |-> IF k = key THEN entry ELSE d[k]]

\* redis-py's Encoder.encode: how a value is turned into bytes on the wire.
redis_encode(v) ==
    CASE v.type = "bytes" -> v.text
      [] v.type = "str" -> utf8_encode(v.text)
      [] v.type = "int" -> utf8_encode(repr_int(v.num))
      [] v.type = "float" -> utf8_encode(repr_float(v.num))

redis_set(d, key, v) == Put(d, key, StringEntry(redis_encode(v)))
redis_get(d, key) == IF key \in DOMAIN d THEN PyBytes(d[key].bytes) ELSE None
redis_exists(d, key) == IF key \in DOMAIN d THEN 1 ELSE 0
\* An increment by two.
redis_incr_value_Two(d, key) == IF key \in DOMAIN d THEN int_parse(d[key].bytes).num + 2 ELSE 2
redis_incr_value(d, key) == IF key \in DOMAIN d THEN int_parse(d[key].bytes).num + 1 ELSE 1
redis_incr(d, key) == Put(d, key, StringEntry(utf8_encode(repr_int(redis_incr_value(d, key)))))
redis_lrange_all(d, key) == IF key \in DOMAIN d THEN d[key].items ELSE <<>>
redis_rpush(d, key, v) ==
    Put(d, key, ListEntry(Append(redis_lrange_all(d, key), redis_encode(v))))
redis_flushdb(d) == EmptyDb

\* ------------------------------------------------------------- state
VARIABLES
    redis_instance, \* per Cache object: the kind of its redis_instance attribute
    db,             \* the Redis database every redis.Redis() handle talks to
    issued,         \* keys uuid4 has produced so far
    pc,             \* per caller: the statement it is about to run
    frame,          \* per caller: the locals of the call it is in
    ret,            \* how the most recently finished call ended
    stored,         \* key -> value, for store calls that returned since the last flush
    started,        \* store invocations begun over the whole run
    succeeded,      \* store calls that returned since the last flush
    failedCalls,    \* store calls that raised since the last flush
    flushed,        \* the keys the most recent flushdb removed
    failures        \* Redis commands that failed so far

cacheVars == <<redis_instance, db, issued, pc, frame, ret, stored, started,
               succeeded, failedCalls, flushed, failures>>

VARIABLES
    rad_getter_,    \* web.py's database: key -> [bytes, ttl]; ttl is the time left, -1 for none
    wpc,            \* per caller of the decorated function: the statement it is about to run
    wframe,         \* per caller: the locals of the wrapper call it is in
    wret,           \* how the most recently finished wrapper call ended
    fetches,        \* per url: wrapper calls begun
    written         \* per url: the content last written to the cache and the time since

webVars == <<rad_getter_, wpc, wframe, wret, fetches, written>>
vars == <<cacheVars, webVars>>

\* 'Cache.store', the __qualname__ of the decorated method, and its list keys.
QUALNAME == <<67, 97, 99, 104, 101, 46, 115, 116, 111, 114, 101>>
input_key(name) == name \o <<58, 105, 110, 112, 117, 116, 115>>
output_key(name) == name \o <<58, 111, 117, 116, 112, 117, 116, 115>>

\* The texts str(uuid.uuid4()) can return, abbreviated to one hex letter each.
UUIDs == { <<96 + n>> : n \in 1..MaxCalls }

\* A generator that hands out the same key again.
uuid4_Fixed == <<97>>

\* uuid.uuid4(): a key that was never produced before (collisions of random
\* 128-bit identifiers are left out).
uuid4 == <<96 + Cardinality(issued) + 1>>

\* A handle test that only asks whether the attribute is set.
IsRedis_NotNone(i) == redis_instance[i] # "None"

\* isinstance(redis_instance, redis.Redis) for the handle of object i.
IsRedis(i) == redis_instance[i] = "Redis"

IdleFrame == [op |-> "", self |-> 0, arg |-> None, result |-> None, trace |-> <<>>,
              out |-> <<>>]
NoRet == [op |-> "", self |-> 0, caller |-> 0, kind |-> "none", arg |-> None,
          value |-> None, exc |-> "", trace |-> <<>>, out |-> <<>>]

Returned(c, f, v) == [op |-> f.op, self |-> f.self, caller |-> c, kind |-> "return",
                      arg |-> f.arg, value |-> v, exc |-> "", trace |-> f.trace,
                      out |-> f.out]
Raised(c, f, e) == [op |-> f.op, self |-> f.self, caller |-> c, kind |-> "raise",
                    arg |-> f.arg, value |-> None, exc |-> e, trace |-> f.trace,
                    out |-> f.out]

\* The call of caller c ends: its frame is dropped and the outcome recorded.
Finish(c, r) ==
    /\ pc' = [pc EXCEPT ![c] = "idle"]
    /\ frame' = [frame EXCEPT ![c] = IdleFrame]
    /\ ret' = r

\* Caller c moves on to statement l with locals f.
Goto(c, l, f) ==
    /\ pc' = [pc EXCEPT ![c] = l]
    /\ frame' = [frame EXCEPT ![c] = f]
    /\ ret' = ret

\* Whether a command sent through handle kind h can be answered or not:
\* a Redis command may fail with a ConnectionError.
\* A capability check that only rules out None.
Outcomes_NotNone(h) ==
    IF h = "None" THEN {"skip"}
    ELSE {"ok"} \cup (IF failures < MaxFailures THEN {"ConnectionError"} ELSE {})

CanFail == IF failures < MaxFailures THEN {"ConnectionError"} ELSE {}
Outcomes(h) == IF h = "Redis" THEN {"ok"} \cup CanFail ELSE {"skip"}
Answered(o) == failures' = failures + (IF o = "ConnectionError" THEN 1 ELSE 0)

\* ---------------------------------------------------- Cache.__init__
\* A constructor that connects and leaves the database as it is.
Cache_init_NoFlush(c, i) ==
    /\ pc[c] = "idle"
    /\ redis_instance[i] = "unset"
    /\ redis_instance' = [redis_instance EXCEPT ![i] = "Redis"]
    /\ flushed' = DOMAIN db
    /\ stored' = [k \in {} |-> None]
    /\ succeeded' = 0
    /\ failedCalls' = 0
    /\ Finish(c, Returned(c, [IdleFrame EXCEPT !.op = "__init__", !.self = i], None))
    /\ UNCHANGED <<db, issued, started, failures>>
    /\ UNCHANGED webVars

\* A new Cache object i is constructed by caller c: redis.Redis() and flushdb.
Cache_init(c, i) ==
    /\ pc[c] = "idle"
    /\ redis_instance[i] = "unset"
    /\ \E o \in Outcomes("Redis") :
      /\ Answered(o)
      /\ LET f == [IdleFrame EXCEPT !.op = "__init__", !.self = i]
        IN  IF o = "ok"
            THEN /\ redis_instance' = [redis_instance EXCEPT ![i] = "Redis"]
                 /\ db' = redis_flushdb(db)
                 /\ flushed' = DOMAIN db
                 /\ stored' = [k \in {} |-> None]
                 /\ succeeded' = 0
                 /\ failedCalls' = 0
                 /\ Finish(c, Returned(c, f, None))
            ELSE /\ Finish(c, Raised(c, f, o))
                 /\ UNCHANGED <<redis_instance, db, flushed, stored, succeeded, failedCalls>>
    /\ UNCHANGED <<issued, started>>
    /\ UNCHANGED webVars

\* ------------------------------------------------------- Cache.store
\* The decorators stacked the other way round: the counter wrapper outermost,
\* so the increment is the first write of a call.
call_history_pre_CountFirst(c, i, v) ==
    /\ pc[c] = "idle"
    /\ redis_instance[i] # "unset"
    /\ started < MaxCalls
    /\ started' = started + 1
    /\ db' = IF redis_instance[i] = "Redis" THEN redis_incr(db, QUALNAME) ELSE db
    /\ Goto(c, "count_calls", [IdleFrame EXCEPT !.op = "store", !.self = i, !.arg = v,
                                                !.trace = <<"incr">>])
    /\ UNCHANGED <<redis_instance, issued, stored, succeeded, failedCalls, flushed, failures>>
    /\ UNCHANGED webVars

\* call_history.wrapper up to the call of the wrapped function: the caller
\* invokes store(v) on object i and str(args) is appended to the inputs list.
call_history_pre(c, i, v) ==
    /\ pc[c] = "idle"
    /\ redis_instance[i] # "unset"
    /\ started < MaxCalls
    /\ started' = started + 1
    /\ \E o \in Outcomes(redis_instance[i]) :
      /\ Answered(o)
      /\ LET f == [IdleFrame EXCEPT !.op = "store", !.self = i, !.arg = v]
        IN  CASE o = "ok" ->
                  /\ db' = redis_rpush(db, input_key(QUALNAME), PyStr(str_args(v)))
                  /\ Goto(c, "count_calls", [f EXCEPT !.trace = <<"rpush_inputs">>])
                  /\ UNCHANGED failedCalls
              [] o = "skip" ->
                  /\ Goto(c, "count_calls", f)
                  /\ UNCHANGED <<db, failedCalls>>
              [] OTHER ->
                  /\ Finish(c, Raised(c, [f EXCEPT !.trace = <<"rpush_inputs_failed">>], o))
                  /\ failedCalls' = failedCalls + 1
                  /\ UNCHANGED db
    /\ UNCHANGED <<redis_instance, issued, stored, succeeded, flushed>>
    /\ UNCHANGED webVars

\* A count_calls that calls the wrapped function and forgets the increment.
count_calls_pre_NoIncr(c) ==
    /\ pc[c] = "count_calls"
    /\ Goto(c, "store", frame[c])
    /\ UNCHANGED <<redis_instance, db, issued, stored, started, succeeded, failedCalls,
                   flushed, failures>>
    /\ UNCHANGED webVars

\* count_calls.wrapper up to the call of the wrapped function: the counter
\* under the qualified name is incremented.
count_calls_pre(c) ==
    /\ pc[c] = "count_calls"
    /\ \E o \in Outcomes(redis_instance[frame[c].self]) :
      /\ Answered(o)
      /\ LET f == frame[c]
        IN  CASE o = "ok" ->
                  /\ db' = redis_incr(db, QUALNAME)
                  /\ Goto(c, "store", [f EXCEPT !.trace = Append(@, "incr")])
                  /\ UNCHANGED failedCalls
              [] o = "skip" ->
                  /\ Goto(c, "store", f)
                  /\ UNCHANGED <<db, failedCalls>>
              [] OTHER ->
                  /\ Finish(c, Raised(c, [f EXCEPT !.trace = Append(@, "incr_failed")], o))
                  /\ failedCalls' = failedCalls + 1
                  /\ UNCHANGED db
    /\ UNCHANGED <<redis_instance, issued, stored, started, succeeded, flushed>>
    /\ UNCHANGED webVars

\* What self.redis_instance.set does for each kind of handle: a Redis
\* connection answers or fails, None has no attribute set, any other object
\* with a set method takes the value without touching this database.
SetOutcomes(h) ==
    CASE h = "Redis" -> {"ok"} \cup CanFail
      [] h = "None" -> {"AttributeError"}
      [] OTHER -> {"elsewhere"}

\* A store whose failure is written to the outputs list as an empty entry.
Cache_store_LogFailure(c) ==
    /\ pc[c] = "store"
    /\ issued' = issued \cup {uuid4}
    /\ \E o \in SetOutcomes(redis_instance[frame[c].self]) :
      /\ Answered(o)
      /\ LET f == [frame[c] EXCEPT !.trace = Append(@, "store")]
        IN  CASE o = "ok" ->
                  /\ db' = redis_set(db, uuid4, f.arg)
                  /\ Goto(c, "call_history_post",
                          [f EXCEPT !.result = PyStr(uuid4), !.trace = Append(@, "set")])
                  /\ UNCHANGED failedCalls
              [] o = "elsewhere" ->
                  /\ Goto(c, "call_history_post", [f EXCEPT !.result = PyStr(uuid4)])
                  /\ UNCHANGED <<db, failedCalls>>
              [] OTHER ->
                  /\ Finish(c, Raised(c, [f EXCEPT !.trace = Append(@, "set_failed")], o))
                  /\ failedCalls' = failedCalls + 1
                  /\ db' = redis_rpush(db, output_key(QUALNAME), PyStr(<<>>))
    /\ UNCHANGED <<redis_instance, stored, started, succeeded, flushed>>
    /\ UNCHANGED webVars

\* The body of Cache.store: a fresh key, and the value set under it.
Cache_store(c) ==
    /\ pc[c] = "store"
    /\ issued' = issued \cup {uuid4}
    /\ \E o \in SetOutcomes(redis_instance[frame[c].self]) :
      /\ Answered(o)
      /\ LET f == [frame[c] EXCEPT !.trace = Append(@, "store")]
        IN  CASE o = "ok" ->
                  /\ db' = redis_set(db, uuid4, f.arg)
                  /\ Goto(c, "call_history_post",
                          [f EXCEPT !.result = PyStr(uuid4), !.trace = Append(@, "set")])
                  /\ UNCHANGED failedCalls
              [] o = "elsewhere" ->
                  /\ Goto(c, "call_history_post", [f EXCEPT !.result = PyStr(uuid4)])
                  /\ UNCHANGED <<db, failedCalls>>
              [] OTHER ->
                  /\ Finish(c, Raised(c, [f EXCEPT !.trace = Append(@, "set_failed")], o))
                  /\ failedCalls' = failedCalls + 1
                  /\ UNCHANGED db
    /\ UNCHANGED <<redis_instance, stored, started, succeeded, flushed>>
    /\ UNCHANGED webVars

\* A wrapper that appends the result to the outputs list twice.
call_history_post_Twice(c) ==
    /\ pc[c] = "call_history_post"
    /\ LET f == frame[c]
       IN  /\ db' = IF redis_instance[f.self] = "Redis"
                    THEN redis_rpush(redis_rpush(db, output_key(QUALNAME), f.result),
                                     output_key(QUALNAME), f.result)
                    ELSE db
           /\ Finish(c, Returned(c, [f EXCEPT !.trace = Append(@, "rpush_outputs")], f.result))
           /\ succeeded' = succeeded + 1
           /\ stored' = [k \in DOMAIN stored \cup {f.result.text} |->
                            IF k \in DOMAIN stored THEN stored[k] ELSE f.arg]
    /\ UNCHANGED <<redis_instance, issued, started, flushed, failedCalls, failures>>
    /\ UNCHANGED webVars

\* call_history.wrapper after the wrapped function returned: the result is
\* appended to the outputs list and returned.
call_history_post(c) ==
    /\ pc[c] = "call_history_post"
    /\ \E o \in Outcomes(redis_instance[frame[c].self]) :
      /\ Answered(o)
      /\ LET f == frame[c]
            done(g) ==
                /\ Finish(c, Returned(c, g, g.result))
                /\ succeeded' = succeeded + 1
                /\ stored' = [k \in DOMAIN stored \cup {g.result.text} |->
                                 IF k \in DOMAIN stored THEN stored[k] ELSE g.arg]
                /\ UNCHANGED failedCalls
        IN  CASE o = "ok" ->
                  /\ db' = redis_rpush(db, output_key(QUALNAME), f.result)
                  /\ done([f EXCEPT !.trace = Append(@, "rpush_outputs")])
              [] o = "skip" ->
                  /\ done(f)
                  /\ UNCHANGED db
              [] OTHER ->
                  /\ Finish(c, Raised(c, [f EXCEPT !.trace = Append(@, "rpush_outputs_failed")], o))
                  /\ failedCalls' = failedCalls + 1
                  /\ UNCHANGED <<db, succeeded, stored>>
    /\ UNCHANGED <<redis_instance, issued, started, flushed>>
    /\ UNCHANGED webVars

\* ------------------------------------- Cache.get, get_str and get_int
Return(v) == [kind |-> "return", value |-> v, exc |-> ""]
Raise(e) == [kind |-> "raise", value |-> None, exc |-> e]

\* lambda x: x.decode('utf-8')
decode_utf8(x) ==
    IF x.type # "bytes" THEN Raise("AttributeError")
    ELSE IF utf8_decode(x.text).ok THEN Return(PyStr(utf8_decode(x.text).text))
    ELSE Raise("UnicodeDecodeError")

\* lambda x: int(x)
to_int(x) ==
    IF x.type # "bytes" THEN Raise("TypeError")
    ELSE IF int_parse(x.text).ok THEN Return(PyInt(int_parse(x.text).num))
    ELSE Raise("ValueError")

call_transform(transform, x) ==
    CASE transform = "decode_utf8" -> decode_utf8(x)
      [] transform = "to_int" -> to_int(x)

\* Cache.get once Redis has answered: transform(value) if transform is not
\* None else value.
get(d, key, transform) ==
    LET value == redis_get(d, key)
    IN  IF transform # "None" THEN call_transform(transform, value) ELSE Return(value)

\* get_str and get_int: get with the decoding and the parsing lambda.
get_str(d, key) == get(d, key, "decode_utf8")
get_int(d, key) == get(d, key, "to_int")

\* Read methods that are instrumented too: each call increments a counter
\* under the name of the method.
ReadCall_Counted(c, i, key, op, outcome) ==
    /\ pc[c] = "idle"
    /\ IsRedis(i)
    /\ db' = redis_incr(db, QUALNAME)
    /\ LET f == [IdleFrame EXCEPT !.op = op, !.self = i, !.arg = PyStr(key), !.trace = <<"get">>]
       IN  IF outcome.kind = "return" THEN Finish(c, Returned(c, f, outcome.value))
           ELSE Finish(c, Raised(c, f, outcome.exc))
    /\ UNCHANGED <<redis_instance, issued, stored, started, succeeded, failedCalls,
                   flushed, failures>>
    /\ UNCHANGED webVars

\* Caller c runs one of the three read methods on object i: one GET command,
\* which may fail, then the method's outcome.
ReadCall(c, i, key, op, outcome) ==
    /\ pc[c] = "idle"
    /\ IsRedis(i)
    /\ \E o \in Outcomes("Redis") :
      /\ Answered(o)
      /\ LET f == [IdleFrame EXCEPT !.op = op, !.self = i, !.arg = PyStr(key),
                                   !.trace = <<IF o = "ok" THEN "get" ELSE "get_failed">>]
        IN  IF o # "ok" THEN Finish(c, Raised(c, f, o))
            ELSE IF outcome.kind = "return" THEN Finish(c, Returned(c, f, outcome.value))
            ELSE Finish(c, Raised(c, f, outcome.exc))
    /\ UNCHANGED <<redis_instance, db, issued, stored, started, succeeded, failedCalls,
                   flushed>>
    /\ UNCHANGED webVars

Cache_get(c, i, key) == ReadCall(c, i, key, "get", get(db, key, "None"))
Cache_get_str(c, i, key) == ReadCall(c, i, key, "get_str", get_str(db, key))
Cache_get_int(c, i, key) == ReadCall(c, i, key, "get_int", get_int(db, key))

\* ------------------------------------------------------------- replay
\* '{} was called {} times:'.format(function_name, call_count)
summary_line(name, count) ==
    name \o <<32, 119, 97, 115, 32, 99, 97, 108, 108, 101, 100, 32>> \o repr_int(count)
         \o <<32, 116, 105, 109, 101, 115, 58>>

\* '{}(*{}) -> {}'.format(function_name, input_value.decode("utf-8"), output_value)
call_line(name, input_text, output_value) ==
    name \o <<40, 42>> \o input_text \o <<41, 32, 45, 62, 32>> \o repr_bytes(output_value)

\* A pairing that runs over every input and pads the missing outputs.
zip_Longest(a, b) ==
    [i \in 1..Len(a) |-> [input_value |-> a[i],
                          output_value |-> IF i <= Len(b) THEN b[i] ELSE <<>>]]

RECURSIVE zip(_, _)
zip(a, b) ==
    IF a = <<>> \/ b = <<>> THEN <<>>
    ELSE <<[input_value |-> Head(a), output_value |-> Head(b)]>> \o zip(Tail(a), Tail(b))

\* The for loop of replay over zip(inputs, outputs): the lines printed, and
\* whether decoding an input raised before the loop ended.
RECURSIVE replay_loop(_, _)
replay_loop(name, pairs) ==
    IF pairs = <<>> THEN [out |-> <<>>, ok |-> TRUE]
    ELSE IF ~utf8_decode(Head(pairs).input_value).ok THEN [out |-> <<>>, ok |-> FALSE]
    ELSE LET rest == replay_loop(name, Tail(pairs))
         IN  [out |-> <<call_line(name, utf8_decode(Head(pairs).input_value).text,
                                  Head(pairs).output_value)>> \o rest.out,
              ok |-> rest.ok]

\* The references replay is handed: None, a plain function (no __self__), or
\* the method Cache.store bound to a constructed object.
References ==
    {[kind |-> "None", self |-> 0], [kind |-> "function", self |-> 0]}
    \cup {[kind |-> "method", self |-> i] : i \in Instances}

\* The Redis commands replay sends, in order; GET is sent only when EXISTS
\* answered non-zero.
ReplayCommands(d) ==
    IF redis_exists(d, QUALNAME) # 0
    THEN <<"exists", "get", "lrange_inputs", "lrange_outputs">>
    ELSE <<"exists", "lrange_inputs", "lrange_outputs">>

\* replay(fn) with every command answered: what it prints and how it ends.
replay_result(d) ==
    LET read == to_int(redis_get(d, QUALNAME))
        call_count == IF redis_exists(d, QUALNAME) # 0 THEN read.value.num ELSE 0
        inputs == redis_lrange_all(d, input_key(QUALNAME))
        outputs == redis_lrange_all(d, output_key(QUALNAME))
        loop == replay_loop(QUALNAME, zip(inputs, outputs))
    IN  IF redis_exists(d, QUALNAME) # 0 /\ read.kind = "raise"
        THEN [out |-> <<>>, exc |-> read.exc]
        ELSE [out |-> <<summary_line(QUALNAME, call_count)>> \o loop.out,
              exc |-> IF loop.ok THEN "" ELSE "UnicodeDecodeError"]

\* replay(fn) by caller c: the two early returns, then the commands up to
\* the first that fails (position n of ReplayCommands; 0 when none does).
replay(c, fn) ==
    /\ pc[c] = "idle"
    /\ fn.kind = "method" => redis_instance[fn.self] # "unset"
    /\ LET f == [IdleFrame EXCEPT !.op = "replay", !.self = fn.self]
           cmds == ReplayCommands(db)
           res == replay_result(db)
       IN  IF fn.kind # "method" \/ ~IsRedis(fn.self)
           THEN Finish(c, Returned(c, f, None)) /\ UNCHANGED failures
           ELSE \E n \in 0..(IF CanFail = {} THEN 0 ELSE Len(cmds)) :
                  IF n = 0
                  THEN /\ UNCHANGED failures
                       /\ LET g == [f EXCEPT !.trace = cmds, !.out = res.out]
                          IN  IF res.exc = "" THEN Finish(c, Returned(c, g, None))
                              ELSE Finish(c, Raised(c, g, res.exc))
                  ELSE /\ failures' = failures + 1
                       /\ Finish(c, Raised(c,
                             [f EXCEPT !.trace = Append(SubSeq(cmds, 1, n - 1), "failed"),
                                       !.out = IF cmds[n] \in {"exists", "get"}
                                               THEN <<>> ELSE <<res.out[1]>>],
                             "ConnectionError"))
    /\ UNCHANGED <<redis_instance, db, issued, stored, started, succeeded, failedCalls,
                   flushed>>
    /\ UNCHANGED webVars

\* ------------------------------------------------------------ web.py
\* Wrapper calls begun over a whole run.
MaxFetches == 4
\* The expiry handed to setex, in seconds.
TTL == 10

\* 'http://x' and 'http://y'.
Urls == { <<104, 116, 116, 112, 58, 47, 47, 120>>, <<104, 116, 116, 112, 58, 47, 47, 121>> }
\* The page texts a working fetch can return: '', 'A' and 'é'.
Contents == { <<>>, <<65>>, <<233>> }

\* f"count:{url}" and f"cached:{url}"
count_key(url) == <<99, 111, 117, 110, 116, 58>> \o url
cached_key(url) == <<99, 97, 99, 104, 101, 100, 58>> \o url

EmptyWebDb == [k \in {} |-> [bytes |-> <<>>, ttl |-> -1]]
web_get(d, key) == IF key \in DOMAIN d THEN PyBytes(d[key].bytes) ELSE None
web_incr(d, key) ==
    [k \in DOMAIN d \cup {key} |->
        IF k = key
        THEN [bytes |-> utf8_encode(repr_int(
                            IF key \in DOMAIN d THEN int_parse(d[key].bytes).num + 1 ELSE 1)),
              ttl |-> IF key \in DOMAIN d THEN d[key].ttl ELSE -1]
        ELSE d[k]]
web_setex(d, key, seconds, v) ==
    [k \in DOMAIN d \cup {key} |->
        IF k = key THEN [bytes |-> redis_encode(v), ttl |-> seconds] ELSE d[k]]
\* One second passes: a key whose time is up is gone.
web_expire(d) ==
    [k \in {x \in DOMAIN d : d[x].ttl # 1} |->
        IF d[k].ttl > 1 THEN [d[k] EXCEPT !.ttl = @ - 1] ELSE d[k]]

\* bool(x) for the bytes or None that get returns
truthy(x) == x.type = "bytes" /\ x.text # <<>>

\* get_page(url): requests is assigned in the function body, so the name is
\* local and reading requests.get raises UnboundLocalError before any request.
get_page(url) == {Raise("UnboundLocalError")}

\* Some working method(url): it returns a page text or raises.
method_outcomes(url) == {Return(PyStr(t)) : t \in Contents} \cup {Raise("RequestException")}

call_method(method, url) == IF method = "get_page" THEN get_page(url) ELSE method_outcomes(url)

\* lookup and cached record, at the moment the wrapper reads the cache, whether
\* the last write for the url is less than TTL old and what it wrote; invoked
\* counts the calls of method.
IdleWFrame == [method |-> "", url |-> <<>>, html_code |-> None, lookup |-> "",
               cached |-> <<>>, invoked |-> 0]
NoWRet == [method |-> "", url |-> <<>>, kind |-> "none", value |-> None, exc |-> "",
           lookup |-> "", cached |-> <<>>, invoked |-> 0, path |-> ""]
WDone(f, kind, value, exc, path) ==
    [method |-> f.method, url |-> f.url, kind |-> kind, value |-> value, exc |-> exc,
     lookup |-> f.lookup, cached |-> f.cached, invoked |-> f.invoked, path |-> path]

WFinish(c, r) ==
    /\ wpc' = [wpc EXCEPT ![c] = "idle"]
    /\ wframe' = [wframe EXCEPT ![c] = IdleWFrame]
    /\ wret' = r
WGoto(c, l, f) ==
    /\ wpc' = [wpc EXCEPT ![c] = l]
    /\ wframe' = [wframe EXCEPT ![c] = f]
    /\ wret' = wret

TotalFetches == LET RECURSIVE sum(_)
                    sum(S) == IF S = {} THEN 0
                              ELSE LET u == CHOOSE x \in S : TRUE
                                   IN  fetches[u] + sum(S \ {u})
                IN  sum(Urls)

NotWritten == [content |-> <<>>, age |-> -1]

\* A wrapper that forgets to count the call.
wrapper_incr_NoCount(c, method, url) ==
    /\ wpc[c] = "idle"
    /\ TotalFetches < MaxFetches
    /\ fetches' = [fetches EXCEPT ![url] = @ + 1]
    /\ WGoto(c, "get", [IdleWFrame EXCEPT !.method = method, !.url = url])
    /\ UNCHANGED <<rad_getter_, written>>
    /\ UNCHANGED cacheVars

\* wrapper(url) is called and increments f"count:{url}".
wrapper_incr(c, method, url) ==
    /\ wpc[c] = "idle"
    /\ TotalFetches < MaxFetches
    /\ fetches' = [fetches EXCEPT ![url] = @ + 1]
    /\ rad_getter_' = web_incr(rad_getter_, count_key(url))
    /\ WGoto(c, "get", [IdleWFrame EXCEPT !.method = method, !.url = url])
    /\ UNCHANGED written
    /\ UNCHANGED cacheVars

\* A wrapper whose hit renews the expiry of the entry.
wrapper_get_Refresh(c) ==
    /\ wpc[c] = "get"
    /\ LET f == wframe[c]
           ht == web_get(rad_getter_, cached_key(f.url))
           text == decode_utf8(ht)
       IN  IF truthy(ht)
           THEN /\ WFinish(c, WDone(f, text.kind, text.value, text.exc, "hit"))
                /\ rad_getter_' = web_setex(rad_getter_, cached_key(f.url), TTL, ht)
           ELSE /\ WGoto(c, "method", f)
                /\ UNCHANGED rad_getter_
    /\ UNCHANGED <<fetches, written>>
    /\ UNCHANGED cacheVars

\* ht = get(f"cached:{url}"); if ht: return ht.decode('utf-8')
wrapper_get(c) ==
    /\ wpc[c] = "get"
    /\ LET w == written[wframe[c].url]
           f == IF w.age >= 0 /\ w.age < TTL
                THEN [wframe[c] EXCEPT !.lookup = "in_window", !.cached = w.content]
                ELSE [wframe[c] EXCEPT !.lookup = "out_of_window"]
           ht == web_get(rad_getter_, cached_key(f.url))
           text == decode_utf8(ht)
       IN  IF truthy(ht)
           THEN WFinish(c, WDone(f, text.kind, text.value, text.exc, "hit"))
           ELSE WGoto(c, "method", f)
    /\ UNCHANGED <<rad_getter_, fetches, written>>
    /\ UNCHANGED cacheVars

\* A wrapper that caches the failure of method as an empty page.
wrapper_method_NegativeCache(c) ==
    /\ wpc[c] = "method"
    /\ \E r \in call_method(wframe[c].method, wframe[c].url) :
        LET f == [wframe[c] EXCEPT !.invoked = @ + 1]
        IN  IF r.kind = "return"
            THEN /\ WGoto(c, "setex", [f EXCEPT !.html_code = r.value])
                 /\ UNCHANGED rad_getter_
            ELSE /\ WFinish(c, WDone(f, "raise", None, r.exc, "miss"))
                 /\ rad_getter_' = web_setex(rad_getter_, cached_key(f.url), TTL, PyStr(<<>>))
    /\ UNCHANGED <<fetches, written>>
    /\ UNCHANGED cacheVars

\* html_code = method(url)
wrapper_method(c) ==
    /\ wpc[c] = "method"
    /\ \E r \in call_method(wframe[c].method, wframe[c].url) :
        LET f == [wframe[c] EXCEPT !.invoked = @ + 1]
        IN  IF r.kind = "return"
            THEN WGoto(c, "setex", [f EXCEPT !.html_code = r.value])
            ELSE WFinish(c, WDone(f, "raise", None, r.exc, "miss"))
    /\ UNCHANGED <<rad_getter_, fetches, written>>
    /\ UNCHANGED cacheVars

\* setex(f"cached:{url}", 10, html_code); return html_code
wrapper_setex(c) ==
    /\ wpc[c] = "setex"
    /\ LET f == wframe[c]
       IN  /\ rad_getter_' = web_setex(rad_getter_, cached_key(f.url), TTL, f.html_code)
           /\ written' = [written EXCEPT ![f.url] = [content |-> f.html_code.text, age |-> 0]]
           /\ WFinish(c, WDone(f, "return", f.html_code, "", "miss"))
    /\ UNCHANGED fetches
    /\ UNCHANGED cacheVars

\* One second passes.
Tick ==
    /\ rad_getter_' = web_expire(rad_getter_)
    /\ written' = [u \in Urls |->
                      IF written[u].age >= 0 /\ written[u].age < TTL
                      THEN [written[u] EXCEPT !.age = @ + 1] ELSE written[u]]
    /\ UNCHANGED <<wpc, wframe, wret, fetches>>
    /\ UNCHANGED cacheVars

\* ------------------------------------------------------ specifications
\* The state once the modules are imported and one Cache object is
\* constructed: an empty database, no call in progress.
Init ==
    /\ redis_instance = [i \in Instances |-> IF i = 1 THEN "Redis" ELSE "unset"]
    /\ db = EmptyDb
    /\ issued = {}
    /\ pc = [c \in Callers |-> "idle"]
    /\ frame = [c \in Callers |-> IdleFrame]
    /\ ret = NoRet
    /\ stored = [k \in {} |-> None]
    /\ started = 0
    /\ succeeded = 0
    /\ failedCalls = 0
    /\ flushed = {}
    /\ failures = 0
    /\ rad_getter_ = EmptyWebDb
    /\ wpc = [c \in Callers |-> "idle"]
    /\ wframe = [c \in Callers |-> IdleWFrame]
    /\ wret = NoWRet
    /\ fetches = [u \in Urls |-> 0]
    /\ written = [u \in Urls |-> NotWritten]

\* The same, with the decorated method also bound to objects whose
\* redis_instance attribute is None or some object that is no Redis connection.
HandleKinds == {"Redis", "None", "Stub"}
InitHandle ==
    /\ redis_instance \in {h \in [Instances -> HandleKinds] :
                              \A i \in Instances : (h[i] = "Redis") <=> (i = 1)}
    /\ db = EmptyDb
    /\ issued = {}
    /\ pc = [c \in Callers |-> "idle"]
    /\ frame = [c \in Callers |-> IdleFrame]
    /\ ret = NoRet
    /\ stored = [k \in {} |-> None]
    /\ started = 0
    /\ succeeded = 0
    /\ failedCalls = 0
    /\ flushed = {}
    /\ failures = 0
    /\ rad_getter_ = EmptyWebDb
    /\ wpc = [c \in Callers |-> "idle"]
    /\ wframe = [c \in Callers |-> IdleWFrame]
    /\ wret = NoWRet
    /\ fetches = [u \in Urls |-> 0]
    /\ written = [u \in Urls |-> NotWritten]

\* Single-threaded use of one Cache object: caller 1 makes every call.
NextSeq ==
    \/ \E i \in Instances, v \in Values : call_history_pre(1, i, v)
    \/ count_calls_pre(1)
    \/ Cache_store(1)
    \/ call_history_post(1)
    \/ \E i \in Instances, k \in UUIDs : Cache_get(1, i, k)
    \/ \E i \in Instances, k \in UUIDs : Cache_get_str(1, i, k)
    \/ \E i \in Instances, k \in UUIDs : Cache_get_int(1, i, k)
    \/ \E fn \in References : replay(1, fn)
SpecSeq == Init /\ [][NextSeq]_vars

\* Single-threaded use in which further Cache objects are constructed
\* against the same database.
NextInit ==
    \/ \E i \in Instances : Cache_init(1, i)
    \/ \E i \in Instances, v \in Values : call_history_pre(1, i, v)
    \/ count_calls_pre(1)
    \/ Cache_store(1)
    \/ call_history_post(1)
    \/ \E i \in Instances, k \in UUIDs : Cache_get(1, i, k)
SpecInit == Init /\ [][NextInit]_vars

\* Single-threaded use of every operation, constructions included; the reads
\* and replay go through the first object and ask for the first key.
NextLife ==
    \/ \E i \in Instances : Cache_init(1, i)
    \/ \E i \in Instances, v \in Values : call_history_pre(1, i, v)
    \/ count_calls_pre(1)
    \/ Cache_store(1)
    \/ call_history_post(1)
    \/ Cache_get(1, 1, <<97>>)
    \/ Cache_get_str(1, 1, <<97>>)
    \/ Cache_get_int(1, 1, <<97>>)
    \/ replay(1, [kind |-> "method", self |-> 1])
SpecLife == Init /\ [][NextLife]_vars

\* The decorated method and replay on objects with any kind of handle.
NextHandle ==
    \/ \E i \in Instances, v \in Values : call_history_pre(1, i, v)
    \/ count_calls_pre(1)
    \/ Cache_store(1)
    \/ call_history_post(1)
    \/ \E fn \in References : replay(1, fn)
SpecHandle == InitHandle /\ [][NextHandle]_vars

\* Cache.store called concurrently on objects sharing the database: every
\* Redis command is atomic and the steps of different calls interleave.
NextConc ==
    \/ \E c \in Callers, i \in Instances, v \in Values : call_history_pre(c, i, v)
    \/ \E c \in Callers : count_calls_pre(c)
    \/ \E c \in Callers : Cache_store(c)
    \/ \E c \in Callers : call_history_post(c)
SpecConc == Init /\ [][NextConc]_vars

\* count_requests around a working method, called from one thread.
NextWeb ==
    \/ \E u \in Urls : wrapper_incr(1, "method", u)
    \/ wrapper_get(1)
    \/ wrapper_method(1)
    \/ wrapper_setex(1)
    \/ Tick
SpecWeb == Init /\ [][NextWeb]_vars

\* count_requests around get_page and around a working method, one thread.
NextFetch ==
    \/ \E m \in {"method", "get_page"}, u \in Urls : wrapper_incr(1, m, u)
    \/ wrapper_get(1)
    \/ wrapper_method(1)
    \/ wrapper_setex(1)
    \/ Tick
SpecFetch == Init /\ [][NextFetch]_vars

\* count_requests around a working method, called concurrently for one url.
NextWebConc ==
    \/ \E c \in Callers : wrapper_incr(c, "method", <<104, 116, 116, 112, 58, 47, 47, 120>>)
    \/ \E c \in Callers : wrapper_get(c)
    \/ \E c \in Callers : wrapper_method(c)
    \/ \E c \in Callers : wrapper_setex(c)
    \/ Tick
SpecWebConc == Init /\ [][NextWebConc]_vars

\* get_page as web.py defines it, called concurrently.
NextGetPage ==
    \/ \E c \in Callers, u \in Urls : wrapper_incr(c, "get_page", u)
    \/ \E c \in Callers : wrapper_get(c)
    \/ \E c \in Callers : wrapper_method(c)
SpecGetPage == Init /\ [][NextGetPage]_vars

\* ------------------------------------------------------------ claims
Quiet == \A c \in Callers : pc[c] = "idle"
CounterValue(d) == IF QUALNAME \in DOMAIN d THEN int_parse(d[QUALNAME].bytes).num ELSE 0
Inputs(d) == redis_lrange_all(d, input_key(QUALNAME))
Outputs(d) == redis_lrange_all(d, output_key(QUALNAME))
Count(seq, e) == Cardinality({i \in 1..Len(seq) : seq[i] = e})
ReadOps == {"get", "get_str", "get_int"}

\* C1: in a single-threaded run on a freshly constructed Cache, once N store
\* calls have returned and none has failed, the counter under 'Cache.store'
\* is N and the inputs and outputs lists both have length N.
C1_CountsMatch ==
    (Quiet /\ failedCalls = 0) =>
        /\ CounterValue(db) = succeeded
        /\ Len(Inputs(db)) = succeeded
        /\ Len(Outputs(db)) = succeeded
C1_Witness ==
    /\ Quiet /\ failedCalls = 0 /\ succeeded = 2
    /\ CounterValue(db) = 2 /\ Len(Inputs(db)) = 2 /\ Len(Outputs(db)) = 2

\* C2 as stated: once store(v) has returned key k, a later get(k) returns v.
C2_GetReturnsValue ==
    (Quiet /\ ret.op = "get" /\ ret.trace = <<"get">> /\ ret.arg.text \in DOMAIN stored) =>
        (ret.kind = "return" /\ ret.value = stored[ret.arg.text])

\* C2, amended: once store(v) has returned key k, the value under k stays the
\* bytes Redis keeps for v whatever calls follow; every later get(k) that
\* Redis answers returns those bytes (v itself when v is bytes), get_str(k)
\* returns v when v is a str and get_int(k) returns v when v is an int.
C2_RoundTrip ==
    /\ \A k \in DOMAIN stored :
          k \in DOMAIN db /\ db[k] = StringEntry(redis_encode(stored[k]))
    /\ (Quiet /\ ret.op \in ReadOps /\ ret.trace = <<"get">>
              /\ ret.arg.text \in DOMAIN stored) =>
          LET v == stored[ret.arg.text]
          IN  /\ ret.op = "get" =>
                    /\ ret.kind = "return"
                    /\ ret.value = PyBytes(redis_encode(v))
                    /\ v.type = "bytes" => ret.value = v
              /\ (ret.op = "get_str" /\ v.type = "str") =>
                    (ret.kind = "return" /\ ret.value = v)
              /\ (ret.op = "get_int" /\ v.type = "int") =>
                    (ret.kind = "return" /\ ret.value = v)
C2_Witness ==
    /\ Quiet /\ ret.op = "get_str" /\ ret.kind = "return"
    /\ Cardinality(DOMAIN stored) = 2
    /\ ret.arg.text = <<97>>
    /\ stored[<<97>>].type = "str" /\ ret.value = stored[<<97>>]
    /\ stored[<<98>>] # stored[<<97>>]

\* C6: right after a Cache object has been constructed against a populated
\* database the database has no keys: every earlier key reads as absent, the
\* counter is missing and both history lists are empty.
C6_ConstructionEmpties ==
    (Quiet /\ ret.op = "__init__" /\ ret.kind = "return") =>
        /\ DOMAIN db = {}
        /\ \A k \in flushed : redis_get(db, k) = None /\ redis_exists(db, k) = 0
        /\ CounterValue(db) = 0
        /\ Inputs(db) = <<>> /\ Outputs(db) = <<>>
C6_Witness ==
    /\ Quiet /\ ret.op = "__init__" /\ ret.kind = "return"
    /\ flushed = {QUALNAME, input_key(QUALNAME), output_key(QUALNAME), <<97>>}
    /\ DOMAIN db = {}

\* C7 as stated: get, get_str and get_int on an absent key return None and
\* raise nothing.
C7_AbsentReturnsNone ==
    (Quiet /\ ret.op \in ReadOps /\ ret.trace = <<"get">> /\ ret.arg.text \notin DOMAIN db) =>
        (ret.kind = "return" /\ ret.value = None)

TelemetryFailures == {"rpush_inputs_failed", "incr_failed", "rpush_outputs_failed"}

\* C8 as stated: a store call in which a telemetry write failed still runs
\* the wrapped function exactly once and returns its result.
C8_FailOpen ==
    (ret.op = "store" /\ \E i \in 1..Len(ret.trace) : ret.trace[i] \in TelemetryFailures) =>
        (ret.kind = "return" /\ Count(ret.trace, "store") = 1)

\* A store call on an object whose redis_instance is no Redis connection, and
\* how such a call ends: the wrapped function ran once and its outcome is
\* the call's outcome.
InvalidCall(f) == f.op = "store" /\ redis_instance[f.self] # "Redis"
C9_Result ==
    (ret.op = "store" /\ redis_instance[ret.self] # "Redis") =>
        /\ Count(ret.trace, "store") = 1
        /\ ret.trace = <<"store">> \/ ret.trace = <<"store", "set_failed">>
        /\ redis_instance[ret.self] = "Stub" =>
              (ret.kind = "return" /\ (Quiet => ret.value = PyStr(<<96 + Cardinality(issued)>>)))
        /\ redis_instance[ret.self] = "None" =>
              (ret.kind = "raise" /\ ret.exc = "AttributeError")

\* C9: on an object whose redis_instance is no Redis connection, a store call
\* writes nothing to the database (no increment, no input append, no output
\* append), runs the wrapped function exactly once, and ends the way the
\* wrapped function ended: with the key it returned, or with its error.
C9_NoTelemetry ==
    [](C9_Result) /\ [][(InvalidCall(frame[1]) \/ InvalidCall(frame'[1])) => db' = db]_vars
C9_Witness ==
    /\ Quiet /\ ret.op = "store" /\ redis_instance[ret.self] = "Stub"
    /\ ret.kind = "return" /\ ret.value = PyStr(<<98>>)
    /\ started = 2 /\ DOMAIN db = {}

Min(a, b) == IF a < b THEN a ELSE b
ExpectedLines(d) ==
    <<summary_line(QUALNAME, CounterValue(d))>>
    \o [i \in 1..Min(Len(Inputs(d)), Len(Outputs(d))) |->
           call_line(QUALNAME, utf8_decode(Inputs(d)[i]).text, Outputs(d)[i])]

\* C10: replay of Cache.store bound to an object with a valid connection
\* prints 1 + min(len(inputs), len(outputs)) lines: the summary with the
\* counter value (0 when the key is missing), then line i pairing inputs[i]
\* with outputs[i], also when the lists differ in length.
C10_ReplayLines ==
    (Quiet /\ ret.op = "replay" /\ ret.kind = "return" /\ ret.self # 0
           /\ IsRedis(ret.self)) =>
        /\ Len(ret.out) = 1 + Min(Len(Inputs(db)), Len(Outputs(db)))
        /\ ret.out = ExpectedLines(db)
C10_Witness ==
    /\ Quiet /\ ret.op = "replay" /\ ret.kind = "return" /\ ret.self = 1
    /\ Len(Inputs(db)) = 2 /\ Len(Outputs(db)) = 1
    /\ Len(ret.out) = 2

WebCounter(u) ==
    IF count_key(u) \in DOMAIN rad_getter_
    THEN int_parse(rad_getter_[count_key(u)].bytes).num ELSE 0

\* C3 as stated: a call that reads the cache less than 10 seconds after some
\* content (the empty string included) was written for its url returns that
\* content and does not call the fetch.
C3_HitInWindow ==
    (wret.lookup = "in_window") =>
        /\ wret.kind = "return"
        /\ wret.value = PyStr(wret.cached)
        /\ wret.invoked = 0

\* C4: in every reachable state, under any interleaving of concurrent calls,
\* the counter under 'count:<url>' is the number of wrapper calls begun for
\* that url, hits, misses, failed fetches and expired entries included.
C4_CounterCountsFetches == \A u \in Urls : WebCounter(u) = fetches[u]
C4_Witness ==
    LET x == <<104, 116, 116, 112, 58, 47, 47, 120>>
    IN  /\ fetches[x] = 4 /\ WebCounter(x) = 4
        /\ written[x].age = TTL /\ cached_key(x) \notin DOMAIN rad_getter_
        /\ wret.path = "hit"
        /\ wpc[1] = "setex" /\ wpc[2] = "method"

\* C5 as stated: a get_page call that finds no cached value calls the fetch
\* exactly once and returns the fresh content.
C5_MissFetchesOnce ==
    (wret.method = "get_page" /\ wret.path = "miss") =>
        (wret.kind = "return" /\ wret.invoked = 1)

\* A replay call that took one of the two early returns: the reference is
\* None or a plain function (self = 0), or its object's handle is no Redis.
SilentReplay(r) == r.op = "replay" /\ (r.self = 0 \/ redis_instance[r.self] # "Redis")

\* C11: replay of None, of a reference without an owning object, or of a
\* method whose object has a missing or non-Redis handle returns None, prints
\* nothing, raises nothing, sends no command and leaves the database as it is.
C11_SilentReplay ==
    /\ [](SilentReplay(ret) =>
             (ret.kind = "return" /\ ret.value = None /\ ret.out = <<>> /\ ret.trace = <<>>))
    /\ [][(pc[1] = "idle" /\ pc'[1] = "idle" /\ SilentReplay(ret')) =>
             (db' = db /\ failures' = failures)]_vars
C11_Witness ==
    /\ Quiet /\ ret.op = "replay" /\ ret.self # 0 /\ redis_instance[ret.self] = "Stub"
    /\ ret.kind = "return" /\ ret.out = <<>>
    /\ CounterValue(db) = 1 /\ Len(Inputs(db)) = 1 /\ Len(Outputs(db)) = 1

\* What the wrapped function of a call can raise.
MethodErrors(m) == {r.exc : r \in {x \in call_method(m, <<>>) : x.kind = "raise"}}
CacheEntry(d, u) == IF cached_key(u) \in DOMAIN d THEN <<d[cached_key(u)]>> ELSE <<>>

\* C12: when method(url) raises, the wrapper call ends with that same
\* exception after exactly one call of method, the step writes nothing (the
\* cached key of the url is as it was), and once the call is over the url
\* still has no usable cached value, so the next call is a miss again.
C12_FailurePropagates ==
    /\ []((wret.kind = "raise" /\ wret.path = "miss") =>
             /\ wret.exc \in MethodErrors(wret.method)
             /\ wret.invoked = 1
             /\ wpc[1] = "idle" => ~truthy(web_get(rad_getter_, cached_key(wret.url))))
    /\ [][(wpc[1] = "method" /\ wpc'[1] = "idle") =>
             /\ wret'.kind = "raise"
             /\ rad_getter_' = rad_getter_
             /\ CacheEntry(rad_getter_', wframe[1].url) = CacheEntry(rad_getter_, wframe[1].url)]_vars
C12_Witness ==
    /\ wpc[1] = "idle" /\ wret.kind = "raise" /\ wret.path = "miss"
    /\ wret.method = "method" /\ wret.exc = "RequestException" /\ wret.invoked = 1
    /\ wret.lookup = "out_of_window" /\ written[wret.url].age = TTL
    /\ cached_key(wret.url) \notin DOMAIN rad_getter_
    /\ WebCounter(wret.url) = 2

\* The writes of a store call that Redis answered, in program order.
FullTrace == <<"rpush_inputs", "incr", "store", "set", "rpush_outputs">>
StoredKeys(d) == DOMAIN d \cap UUIDs
OnRedis(f) == f.op = "store" /\ f.self # 0 /\ redis_instance[f.self] = "Redis"

\* C13: every step of a store call makes one write, in this order: str(args)
\* is appended to 'Cache.store:inputs', then 'Cache.store' is incremented,
\* then the value is set under the fresh key, then the key is appended to
\* 'Cache.store:outputs'; each step leaves the other three as they were.
C13_WriteOrder ==
    /\ []((pc[1] = "count_calls" /\ OnRedis(frame[1])) => frame[1].trace = SubSeq(FullTrace, 1, 1))
    /\ []((pc[1] = "store" /\ OnRedis(frame[1])) => frame[1].trace = SubSeq(FullTrace, 1, 2))
    /\ []((pc[1] = "call_history_post" /\ OnRedis(frame[1])) => frame[1].trace = SubSeq(FullTrace, 1, 4))
    /\ []((ret.kind = "return" /\ OnRedis(ret)) => ret.trace = FullTrace)
    /\ [][(pc[1] = "idle" /\ pc'[1] = "count_calls" /\ OnRedis(frame'[1])) =>
             /\ Inputs(db') = Append(Inputs(db), utf8_encode(str_args(frame'[1].arg)))
             /\ CounterValue(db') = CounterValue(db) /\ Outputs(db') = Outputs(db)
             /\ StoredKeys(db') = StoredKeys(db)]_vars
    /\ [][(pc[1] = "count_calls" /\ pc'[1] = "store" /\ OnRedis(frame[1])) =>
             /\ CounterValue(db') = CounterValue(db) + 1
             /\ Inputs(db') = Inputs(db) /\ Outputs(db') = Outputs(db)
             /\ StoredKeys(db') = StoredKeys(db)]_vars
    /\ [][(pc[1] = "store" /\ pc'[1] = "call_history_post" /\ OnRedis(frame[1])) =>
             /\ frame'[1].result.text \notin StoredKeys(db)
             /\ StoredKeys(db') = StoredKeys(db) \cup {frame'[1].result.text}
             /\ db'[frame'[1].result.text] = StringEntry(redis_encode(frame[1].arg))
             /\ CounterValue(db') = CounterValue(db)
             /\ Inputs(db') = Inputs(db) /\ Outputs(db') = Outputs(db)]_vars
    /\ [][(pc[1] = "call_history_post" /\ pc'[1] = "idle" /\ OnRedis(frame[1])
               /\ ret'.kind = "return") =>
             /\ Outputs(db') = Append(Outputs(db), utf8_encode(frame[1].result.text))
             /\ CounterValue(db') = CounterValue(db) /\ Inputs(db') = Inputs(db)
             /\ StoredKeys(db') = StoredKeys(db)]_vars
C13_Witness ==
    /\ Quiet /\ OnRedis(ret) /\ ret.kind = "return" /\ ret.trace = FullTrace
    /\ succeeded = 2 /\ CounterValue(db) = 2
    /\ Inputs(db) = <<utf8_encode(str_args(PyStr(<<104, 233>>))), utf8_encode(str_args(PyInt(42)))>>
    /\ Outputs(db) = <<<<97>>, <<98>>>>

\* Store calls that failed in the body of Cache.store: keys drawn for which
\* the set command raised.  The other failed calls failed in a telemetry write.
StoreFailures == Cardinality(issued) - Cardinality(StoredKeys(db))
NoTelemetryFailure == failedCalls = StoreFailures

\* C14: a store call whose set command fails ends with that error after the
\* input append and the increment and without the output append; in a
\* single-threaded run in which S calls returned and F calls failed that way
\* (and none in a telemetry write), counter = len(inputs) = S + F and
\* len(outputs) = S.
C14_ErrorWindow ==
    /\ (OnRedis(ret) /\ ret.trace # <<>> /\ ret.trace[Len(ret.trace)] = "set_failed") =>
          /\ ret.kind = "raise" /\ ret.exc = "ConnectionError"
          /\ ret.trace = <<"rpush_inputs", "incr", "store", "set_failed">>
    /\ (Quiet /\ NoTelemetryFailure) =>
          /\ CounterValue(db) = succeeded + StoreFailures
          /\ Len(Inputs(db)) = succeeded + StoreFailures
          /\ Len(Outputs(db)) = succeeded
C14_Witness ==
    /\ Quiet /\ NoTelemetryFailure /\ succeeded = 1 /\ StoreFailures = 1
    /\ ret.kind = "raise" /\ ret.trace = <<"rpush_inputs", "incr", "store", "set_failed">>
    /\ CounterValue(db) = 2 /\ Len(Inputs(db)) = 2 /\ Len(Outputs(db)) = 1

\* Entry i of the outputs list is the key that some store call returned, and
\* entry i of the inputs list is str(args) of that same call.  Calls are told
\* apart by their arguments; runs in which the calls store different values
\* are among the runs explored.
AlignedAt(d, i) ==
    /\ utf8_decode(Outputs(d)[i]).ok
    /\ utf8_decode(Outputs(d)[i]).text \in DOMAIN stored
    /\ i <= Len(Inputs(d))
    /\ Inputs(d)[i] = utf8_encode(str_args(stored[utf8_decode(Outputs(d)[i]).text]))
Aligned(d) == \A i \in 1..Len(Outputs(d)) : AlignedAt(d, i)

\* C15 as stated: in a single-threaded run in which store calls may fail in
\* the body of Cache.store, whenever no call is in progress every entry of
\* the outputs list belongs to the call recorded at the same index of the
\* inputs list.
C15_AlignedSequential == (Quiet /\ NoTelemetryFailure) => Aligned(db)

\* C16 as stated: with concurrent store calls that all succeed, once the
\* calls are over every entry of the outputs list belongs to the call
\* recorded at the same index of the inputs list.
C16_AlignedConcurrent == (Quiet /\ failures = 0 /\ failedCalls = 0) => Aligned(db)

\* C18: with concurrent store calls, no flush and no failed telemetry write,
\* len(outputs) <= counter <= len(inputs) in every state, the three differing
\* only by calls in progress; once no call is in progress and none has
\* failed, counter = len(inputs) = len(outputs) = the calls that returned.
C18_CountsBracketed ==
    /\ NoTelemetryFailure =>
          /\ Len(Outputs(db)) <= CounterValue(db)
          /\ CounterValue(db) <= Len(Inputs(db))
          /\ Len(Inputs(db)) - Len(Outputs(db))
                <= Cardinality({c \in Callers : pc[c] # "idle"}) + StoreFailures
    /\ (Quiet /\ failedCalls = 0) =>
          /\ CounterValue(db) = succeeded
          /\ Len(Inputs(db)) = succeeded
          /\ Len(Outputs(db)) = succeeded
C18_Witness ==
    /\ pc[1] = "count_calls" /\ pc[2] = "call_history_post" /\ failedCalls = 0
    /\ Len(Outputs(db)) = 0 /\ CounterValue(db) = 1 /\ Len(Inputs(db)) = 2

Constructing == redis_instance' # redis_instance
Incrementing == pc[1] = "count_calls" /\ pc'[1] = "store"

\* C17: across store, get, get_str, get_int and replay calls the counter under
\* 'Cache.store' never decreases; it changes only in the increment step of a
\* store call, by exactly 1, once per call; the one step that takes it back
\* is the construction of a Cache object, which removes the key for every
\* object on that database.
C17_CounterMonotone ==
    /\ [][~Constructing => CounterValue(db') >= CounterValue(db)]_vars
    /\ [][(CounterValue(db') # CounterValue(db) \/ (QUALNAME \in DOMAIN db /\ QUALNAME \notin DOMAIN db'))
             => (Incrementing \/ Constructing)]_vars
    /\ [][Incrementing => CounterValue(db') = CounterValue(db) + 1]_vars
    /\ [][Constructing => (CounterValue(db') = 0 /\ QUALNAME \notin DOMAIN db')]_vars
    /\ [](ret.op = "store" =>
             /\ Count(ret.trace, "incr") <= 1
             /\ ret.kind = "return" => Count(ret.trace, "incr") = 1)
    /\ []((Quiet /\ ret.op = "replay" /\ ret.kind = "return") =>
             ret.out[1] = summary_line(QUALNAME, CounterValue(db)))
C17_Witness ==
    /\ Quiet /\ ret.op = "replay" /\ ret.kind = "return" /\ ret.self = 1
    /\ redis_instance[2] = "Redis" /\ QUALNAME \in flushed
    /\ started = 2 /\ succeeded = 0
    /\ ret.out = <<summary_line(QUALNAME, 0)>>

\* A step that is a whole call of get, get_str, get_int or replay.
ReadStep == pc[1] = "idle" /\ pc'[1] = "idle" /\ ret'.op \in ReadOps \cup {"replay"}

\* C19: a call of get, get_str, get_int or replay, whether it returns or
\* raises, leaves the database as it was: the same keys with the same values,
\* the same counter and the same two history lists.
C19_ReadsWriteNothing ==
    [][ReadStep =>
         /\ db' = db
         /\ DOMAIN db' = DOMAIN db /\ \A k \in DOMAIN db : redis_get(db', k) = redis_get(db, k)
         /\ CounterValue(db') = CounterValue(db)
         /\ Inputs(db') = Inputs(db) /\ Outputs(db') = Outputs(db)]_vars
C19_Witness ==
    /\ Quiet /\ ret.op = "get_int" /\ ret.kind = "raise" /\ ret.exc = "ValueError"
    /\ ret.arg.text = <<98>> /\ Cardinality(StoredKeys(db)) = 2
    /\ CounterValue(db) = 2 /\ Len(Inputs(db)) = 2 /\ Len(Outputs(db)) = 2

\* The url of the call that takes a step (every step of a call moves wpc; the
\* passing of time does not), and what the database
\* holds for a url: its counter and its cached entry with the time left.
StepUrl == IF wpc[1] = "idle" THEN wframe'[1].url ELSE wframe[1].url
CountEntry(d, u) == IF count_key(u) \in DOMAIN d THEN <<d[count_key(u)]>> ELSE <<>>

\* C20: the entry written for a url is there for the 10 seconds after the
\* write and gone from then on, with the content that was written, however
\* many hits happened in between (a hit does not renew it); and no step of a
\* call for one url changes the cached value, the time left or the counter
\* of another url.
C20_FixedLifetime ==
    /\ [](\A u \in Urls :
             IF written[u].age >= 0 /\ written[u].age < TTL
             THEN CacheEntry(rad_getter_, u)
                    = <<[bytes |-> utf8_encode(written[u].content), ttl |-> TTL - written[u].age]>>
             ELSE CacheEntry(rad_getter_, u) = <<>>)
    /\ [][wpc'[1] # wpc[1] =>
             \A v \in Urls \ {StepUrl} :
                 /\ CacheEntry(rad_getter_', v) = CacheEntry(rad_getter_, v)
                 /\ CountEntry(rad_getter_', v) = CountEntry(rad_getter_, v)]_vars
    /\ [][(wpc[1] = "get" /\ wpc'[1] = "idle") => rad_getter_' = rad_getter_]_vars
C20_Witness ==
    LET x == <<104, 116, 116, 112, 58, 47, 47, 120>>
        y == <<104, 116, 116, 112, 58, 47, 47, 121>>
    IN  /\ wpc[1] = "idle" /\ wret.path = "hit" /\ wret.url = x /\ fetches[x] = 3
        /\ written[x].age = TTL /\ CacheEntry(rad_getter_, x) = <<>>
        /\ written[y].age = 3 /\ rad_getter_[cached_key(y)].ttl = 7

====
